---------------------------- MODULE Spec2Model ----------------------------
(***************************************************************************)
(* The blob codec of op-service/eth/blob.go (Blob.FromData, Blob.ToData,   *)
(* encodeThreeBytes, Blob.Clear) and the blob data source of the           *)
(* derivation pipeline (BlobDataSource.Next), and the decoder of the       *)
(* system-config events (ProcessSystemConfigUpdateLogEvent).               *)
(*                                                                         *)
(* A blob and a Data value are sequences of bytes: the byte at Go index i  *)
(* is the element i+1 of the sequence.                                     *)
(* The source fixes the number of field groups of a blob at 1024; the      *)
(* model keeps every offset computation of the source and takes the        *)
(* number of groups from NGroups.                                          *)
(***************************************************************************)
EXTENDS Integers, Sequences, FiniteSets, TLC

VARIABLES
    b,        \* the blob buffer (var b Blob)
    data,     \* the payload the caller encodes
    ret,      \* what the last call returned
    pokes,    \* direct byte writes into b since the last FromData
    encoded,  \* b is what the last FromData made of data, byte for byte
    dirty,    \* b held a non-zero byte when the last FromData was called
    open,            \* ds.open
    blobDataHashes,  \* ds.blobDataHashes
    blobs,           \* ds.blobs: nil, or the blobs not yet parsed
    nextRet,         \* what the last ds.Next returned
    fetchLog,        \* what the fetchers answered during the last ds.Next
    hist,            \* what the calls of ds.Next did so far
    ev,              \* the log entry of the system-config contract
    sysCfg,          \* the eth.SystemConfig the events are applied to
    sysRet           \* what the last call on a system-config event returned

codecVars == <<b, data, ret, pokes, encoded, dirty>>

dsVars == <<open, blobDataHashes, blobs, nextRet, fetchLog, hist>>

cfgVars == <<ev, sysCfg, sysRet>>

vars == <<b, data, ret, pokes, encoded, dirty,
          open, blobDataHashes, blobs, nextRet, fetchLog, hist,
          ev, sysCfg, sysRet>>

\* Number of field groups (of four field elements) in a blob: 1024 in the
\* source (4096 field elements; the loops of FromData and ToData run over
\* fieldNumber < 1024).
NGroups == 3

\* Number of direct byte writes into a blob between two encodings.
MaxPokes == 1

\* Number of transactions in an L1 block.
MaxTxs == 2

\* Number of blobs the blob fetcher returns.
MaxBlobs == 2

--------------------------------------------------------------------------
(* Constants of blob.go *)

BlobSize == (4 * NGroups) * 32

MaxBlobDataSize == (4 * 31 + 3) * NGroups - 4

EncodingVersion == 0

FieldSize == 4 * 32

FieldCapacity == 31 * 4 + 3

Byte == 0 .. 255

--------------------------------------------------------------------------
(* Go's operators on unsigned bytes and ints *)

Min(x, y) == IF x < y THEN x ELSE y

RECURSIVE BitAnd(_, _)
BitAnd(x, y) ==
    IF x = 0 \/ y = 0 THEN 0
    ELSE (x % 2) * (y % 2) + 2 * BitAnd(x \div 2, y \div 2)

RECURSIVE BitOr(_, _)
BitOr(x, y) ==
    IF x = 0 THEN y
    ELSE IF y = 0 THEN x
    ELSE (IF x % 2 = 1 \/ y % 2 = 1 THEN 1 ELSE 0) + 2 * BitOr(x \div 2, y \div 2)

\* x >> k
Shr(x, k) == x \div (2 ^ k)

\* x << k on a byte: the bits shifted out of the byte are lost
Shl8(x, k) == (x * (2 ^ k)) % 256

\* x << k on an int32 holding a byte
Shl32(x, k) == x * (2 ^ k)

\* data[offset:]
SliceFrom(d, offset) == SubSeq(d, offset + 1, Len(d))

\* copy(dst[dlo:dhi], src[slo:shi]): copies min(dhi-dlo, shi-slo) bytes;
\* s is dst after the copy, n the number of bytes copied
Copy(dst, dlo, dhi, src, slo, shi) ==
    LET n == Min(dhi - dlo, shi - slo)
    IN  [s |-> SubSeq(dst, 1, dlo) \o SubSeq(src, slo + 1, slo + n)
                   \o SubSeq(dst, dlo + n + 1, Len(dst)),
         n |-> n]

--------------------------------------------------------------------------
(* Blob.Clear *)

ClearKeeps(blob) == blob

Clear(blob) == [i \in 1 .. BlobSize |-> 0]

ZeroBlob == [i \in 1 .. BlobSize |-> 0]

--------------------------------------------------------------------------
(* encodeThreeBytes *)

encodeThreeBytesWide(index, remainingData, blob) ==
    [blob EXCEPT
        ![index * FieldSize + 1] = BitAnd(remainingData[1], 127),
        ![index * FieldSize + 32 + 1] = BitAnd(remainingData[2], 127),
        ![index * FieldSize + 64 + 1] = BitAnd(remainingData[3], 127),
        ![index * FieldSize + 96 + 1] =
            BitOr(BitOr(Shr(BitAnd(remainingData[1], 192), 2),
                        Shr(BitAnd(remainingData[2], 192), 4)),
                  Shr(BitAnd(remainingData[3], 192), 6))]

encodeThreeBytesSwapped(index, remainingData, blob) ==
    [blob EXCEPT
        ![index * FieldSize + 1] = BitAnd(remainingData[1], 63),
        ![index * FieldSize + 32 + 1] = BitAnd(remainingData[2], 63),
        ![index * FieldSize + 64 + 1] = BitAnd(remainingData[3], 63),
        ![index * FieldSize + 96 + 1] =
            BitOr(BitOr(Shr(BitAnd(remainingData[1], 192), 6),
                        Shr(BitAnd(remainingData[2], 192), 4)),
                  Shr(BitAnd(remainingData[3], 192), 2))]

\* b[index*FieldSize], b[index*FieldSize+32], +64 and +96
encodeThreeBytes(index, remainingData, blob) ==
    [blob EXCEPT
        ![index * FieldSize + 1] = BitAnd(remainingData[1], 63),
        ![index * FieldSize + 32 + 1] = BitAnd(remainingData[2], 63),
        ![index * FieldSize + 64 + 1] = BitAnd(remainingData[3], 63),
        ![index * FieldSize + 96 + 1] =
            BitOr(BitOr(Shr(BitAnd(remainingData[1], 192), 2),
                        Shr(BitAnd(remainingData[2], 192), 4)),
                  Shr(BitAnd(remainingData[3], 192), 6))]

--------------------------------------------------------------------------
(* Blob.FromData *)

DataTooLargeUpToBlobSize(d) == Len(d) > BlobSize

DataTooLargeNever(d) == FALSE

\* the size check on entry
DataTooLarge(d) == Len(d) > MaxBlobDataSize

MoreFieldsOneShort(fieldNumber) == fieldNumber < NGroups - 1

\* the condition of the loop over the field groups after the first
MoreFields(fieldNumber) == fieldNumber < NGroups

\* for fieldNumber := 1; fieldNumber < 4; fieldNumber++: the tails of the
\* second to fourth field element of the first group; returned is TRUE when
\* the loop body executed "return nil"
RECURSIVE FirstFieldTails(_, _, _, _)
FirstFieldTails(blob, d, offset, fieldNumber) ==
    IF fieldNumber < 4
    THEN LET fieldStartIndex == fieldNumber * 32
             Copied(c) ==
                 IF offset + c.n = Len(d)
                 THEN [b |-> c.s, offset |-> offset + c.n, returned |-> TRUE]
                 ELSE FirstFieldTails(c.s, d, offset + c.n, fieldNumber + 1)
         IN  Copied(Copy(blob, fieldStartIndex + 1, fieldStartIndex + 32,
                         d, offset, Len(d)))
    ELSE [b |-> blob, offset |-> offset, returned |-> FALSE]

\* remainingData := make([]byte, 3); for i := 0; i < 3; i++ { ... }
RECURSIVE ReadRemaining(_, _, _, _)
ReadRemaining(remainingData, d, offset, i) ==
    IF i < 3
    THEN LET Copied(c) ==
                 IF offset + c.n = Len(d)
                 THEN [remainingData |-> c.s, offset |-> offset + c.n]
                 ELSE ReadRemaining(c.s, d, offset + c.n, i + 1)
         IN  Copied(Copy(remainingData, i, i + 1, d, offset, Len(d)))
    ELSE [remainingData |-> remainingData, offset |-> offset]

\* for fieldElementNumber := 0; fieldElementNumber < 4; fieldElementNumber++
RECURSIVE FieldElementTails(_, _, _, _, _)
FieldElementTails(blob, d, offset, fieldNumber, fieldElementNumber) ==
    IF fieldElementNumber < 4
    THEN LET elementStartIndex == fieldNumber * FieldSize + fieldElementNumber * 32
             Copied(c) ==
                 IF offset + c.n = Len(d)
                 THEN [b |-> c.s, offset |-> offset + c.n]
                 ELSE FieldElementTails(c.s, d, offset + c.n, fieldNumber,
                                        fieldElementNumber + 1)
         IN  Copied(Copy(blob, elementStartIndex + 1, elementStartIndex + 32,
                         d, offset, Len(d)))
    ELSE [b |-> blob, offset |-> offset]

\* for fieldNumber := 1; fieldNumber < 1024; fieldNumber++
RECURSIVE FieldLoop(_, _, _, _)
FieldLoop(blob, d, offset, fieldNumber) ==
    IF MoreFields(fieldNumber)
    THEN LET Spilled(r, e) ==
                 IF r.offset = Len(d)
                 THEN [b |-> e, offset |-> r.offset]
                 ELSE FieldLoop(e, d, r.offset, fieldNumber + 1)
             Read(t, r) ==
                 Spilled(r, encodeThreeBytes(fieldNumber, r.remainingData, t.b))
             Tails(t) ==
                 IF t.offset = Len(d)
                 THEN [b |-> t.b, offset |-> t.offset]
                 ELSE Read(t, ReadRemaining(<<0, 0, 0>>, d, t.offset, 0))
         IN  Tails(FieldElementTails(blob, d, offset, fieldNumber, 0))
    ELSE [b |-> blob, offset |-> offset]

\* b.FromData(data): the blob after the call, the error returned and the
\* number of payload bytes consumed
FromData(blob, d) ==
    IF DataTooLarge(d)
    THEN [b |-> blob, err |-> "DataTooLarge", offset |-> 0]
    ELSE
    LET Looped(f) ==
            IF f.offset < Len(d)
            THEN [b |-> f.b, err |-> "Overflow", offset |-> f.offset]
            ELSE [b |-> f.b, err |-> "nil", offset |-> f.offset]
        Spilled(r, e) ==
            IF r.offset = Len(d)
            THEN [b |-> e, err |-> "nil", offset |-> r.offset]
            ELSE Looped(FieldLoop(e, d, r.offset, 1))
        Read(t, r) == Spilled(r, encodeThreeBytes(0, r.remainingData, t.b))
        Tails(t) ==
            IF t.returned
            THEN [b |-> t.b, err |-> "nil", offset |-> t.offset]
            ELSE Read(t, ReadRemaining(<<0, 0, 0>>, d, t.offset, 0))
        First(c) == Tails(FirstFieldTails(c.s, d, c.n, 1))
        Cleared(b1) ==
            IF ~(Len(d) < 2 ^ 24)
            THEN [b |-> b1, err |-> "LengthTooLarge", offset |-> 0]
            ELSE First(Copy([b1 EXCEPT ![2 + 1] = BitAnd(Shr(Len(d), 16), 255),
                                       ![3 + 1] = BitAnd(Shr(Len(d), 8), 255),
                                       ![4 + 1] = BitAnd(Len(d), 255)],
                            5, 32, d, 0, Len(d)))
    IN  Cleared([Clear(blob) EXCEPT ![1 + 1] = EncodingVersion])

--------------------------------------------------------------------------
(* Blob.ToData *)

\* b&(1<<7) != 0
HighBitSet(x) == BitAnd(x, Shl8(1, 7)) # 0

\* the three bytes whose bits are spread over the leading bytes of the four
\* field elements of group i
DecodedData(blob, i) ==
    << BitOr(BitAnd(blob[FieldSize * i + 1], 63),
             Shl8(BitAnd(blob[FieldSize * i + 96 + 1], 48), 2)),
       BitOr(BitAnd(blob[FieldSize * i + 32 + 1], 63),
             Shl8(BitAnd(blob[FieldSize * i + 96 + 1], 12), 4)),
       BitOr(BitAnd(blob[FieldSize * i + 64 + 1], 63),
             Shl8(BitAnd(blob[FieldSize * i + 96 + 1], 3), 6)) >>

\* the version the BadVersion error reports: firstField[0]
ReportedVersion(blob) == blob[0 + 1]

\* dataLen > (int32)(len(data)), with data := make(Data, BlobSize)
LengthPrefixOutOfRange(dataLen) == dataLen > BlobSize

TruncateOneShort(out, dataLen) == SubSeq(out, 1, dataLen - 1)

\* data = data[:dataLen]
Truncate(out, dataLen) == SubSeq(out, 1, dataLen)

\* for i := 1; i < 4; i++: the second to fourth field element of the first group
RECURSIVE FirstFieldElements(_, _, _)
FirstFieldElements(blob, out, i) ==
    IF i < 4
    THEN IF HighBitSet(blob[i * 32 + 1])
         THEN [out |-> out, err |-> "FieldElementHighBit", index |-> i]
         ELSE FirstFieldElements(
                  blob,
                  Copy(out, 27 + 31 * (i - 1), Len(out),
                       blob, i * 32 + 1, i * 32 + 32).s,
                  i + 1)
    ELSE [out |-> out, err |-> "nil", index |-> -1]

\* for j := 0; j < 4; j++: the four field elements of group i
RECURSIVE GroupElements(_, _, _, _)
GroupElements(blob, out, i, j) ==
    IF j < 4
    THEN IF HighBitSet(blob[i * FieldSize + j * 32 + 1])
         THEN [out |-> out, err |-> "FieldElementHighBit", index |-> i]
         ELSE GroupElements(
                  blob,
                  Copy(out, FieldCapacity * i + j * 31 - 4,
                       FieldCapacity * i + (j + 1) * 31 - 4,
                       blob, i * FieldSize + j * 32 + 1, Len(blob)).s,
                  i, j + 1)
    ELSE [out |-> out, err |-> "nil", index |-> -1]

\* for i := 1; i < 1024; i++
RECURSIVE DecodeLoop(_, _, _)
DecodeLoop(blob, out, i) ==
    IF i < NGroups
    THEN LET Elements(g) ==
                 IF g.err # "nil"
                 THEN g
                 ELSE DecodeLoop(blob,
                                 Copy(g.out, 120 + FieldCapacity * i, Len(g.out),
                                      DecodedData(blob, i), 0, 3).s,
                                 i + 1)
         IN  Elements(GroupElements(blob, out, i, 0))
    ELSE [out |-> out, err |-> "nil", index |-> -1]

\* b.ToData(): the data and the error returned; info is the number the
\* error message carries (the version, the length prefix, the element)
ToData(blob) ==
    IF blob[1 + 1] # EncodingVersion
    THEN [data |-> <<>>, err |-> "BadVersion", info |-> ReportedVersion(blob)]
    ELSE
    LET Looped(l, dataLen) ==
            IF l.err # "nil"
            THEN [data |-> <<>>, err |-> l.err, info |-> l.index]
            ELSE [data |-> Truncate(l.out, dataLen), err |-> "nil", info |-> -1]
        First(f, dataLen) ==
            IF f.err # "nil"
            THEN [data |-> <<>>, err |-> f.err, info |-> f.index]
            ELSE Looped(DecodeLoop(blob,
                                   Copy(f.out, 27 + 31 * 3, Len(f.out),
                                        DecodedData(blob, 0), 0, 3).s,
                                   1),
                        dataLen)
        Length(dataLen) ==
            IF LengthPrefixOutOfRange(dataLen)
            THEN [data |-> <<>>, err |-> "LengthPrefixOutOfRange", info |-> dataLen]
            ELSE First(FirstFieldElements(
                           blob,
                           Copy(ZeroBlob, 0, 27, blob, 5, 32).s,
                           1),
                       dataLen)
    IN  Length(BitOr(BitOr(Shl32(blob[2 + 1], 16), Shl32(blob[3 + 1], 8)),
                     blob[4 + 1]))

--------------------------------------------------------------------------
(* Payloads and buffers *)

\* n bytes, the i-th (from 0) being seed + i*step mod 256
MkData(n, seed, step) == [i \in 1 .. n |-> (seed + (i - 1) * step) % 256]

\* n zero bytes, the last one 0xFF (TestSmallBlobEncoding, TestBigBlobEncoding)
ZerosThenFF(n) == [i \in 1 .. n |-> IF i = n THEN 255 ELSE 0]

\* "this is a test of invalid blob decoding" (TestInvalidBlobDecoding)
InvalidDecodingText ==
    << 116, 104, 105, 115, 32, 105, 115, 32, 97, 32, 116, 101, 115, 116, 32,
       111, 102, 32, 105, 110, 118, 97, 108, 105, 100, 32, 98, 108, 111, 98,
       32, 100, 101, 99, 111, 100, 105, 110, 103 >>

\* "short" (TestBlobEncodeDecode)
ShortText == << 115, 104, 111, 114, 116 >>

\* every length up to one past the largest payload, and the length of a blob;
\* zero bytes, 0xFF bytes, and bytes that run through all values
DataInputs ==
    { MkData(n, p[1], p[2]) :
        n \in (0 .. MaxBlobDataSize + 1) \cup {BlobSize},
        p \in { <<0, 0>>, <<255, 0>>, <<1, 67>> } }

\* payloads of blob_test.go: the empty one, the text of
\* TestInvalidBlobDecoding, the big one of TestBigBlobEncoding (as long as
\* the blob of the model allows), and the largest payload of 0xFF bytes
TestInputs ==
    { <<>>, InvalidDecodingText,
      ZerosThenFF(MaxBlobDataSize - 3), MkData(MaxBlobDataSize, 255, 0) }

\* what a buffer may hold before an encoding: nothing, 0xFF throughout, an
\* earlier encoding of the largest payload
PriorBlobs ==
    { ZeroBlob,
      [i \in 1 .. BlobSize |-> 255],
      FromData(ZeroBlob, MkData(MaxBlobDataSize, 255, 0)).b }

\* offsets a test or a faulty producer writes to: the header, and the leading
\* bytes of the second and the fourth field element, of the first element of
\* the second group and of the last element of the blob
PokeOffsets == (0 .. 4) \cup { 32, 96, FieldSize, BlobSize - 32 }

PokeBytes == { 1, 128, 255 }

NoCall == [op |-> "none", err |-> "nil", data |-> <<>>, info |-> -1]

--------------------------------------------------------------------------
(* BlobDataFromEVMTransactions *)

\* dsCfg.batchInboxAddress and the batcher address the source was made with
batchInboxAddress == "inbox"

batcherAddr == "batcher"

\* isValidBatchTx(tx, dsCfg.l1Signer, batcherAddr): the sender recovered
\* under the signer is the batcher
isValidBatchTx(tx) == tx.sender = batcherAddr

IndexedHashesFromZero(hashes, blobIndex) ==
    [k \in 1 .. Len(hashes) |-> [Index |-> k - 1, DataHash |-> hashes[k]]]

\* for _, h := range tx.BlobHashes(): one entry per hash, blobIndex counting up
IndexedHashes(hashes, blobIndex) ==
    [k \in 1 .. Len(hashes) |-> [Index |-> blobIndex + (k - 1), DataHash |-> hashes[k]]]

\* for _, tx := range txs, from transaction i on
RECURSIVE DataHashesFrom(_, _, _, _)
DataHashesFrom(txs, i, blobIndex, indexedDataHashes) ==
    IF i > Len(txs)
    THEN indexedDataHashes
    ELSE IF txs[i].to # "nil" /\ txs[i].to = batchInboxAddress
    THEN IF ~isValidBatchTx(txs[i])
         THEN DataHashesFrom(txs, i + 1, blobIndex + Len(txs[i].blobHashes),
                             indexedDataHashes)
         ELSE DataHashesFrom(txs, i + 1, blobIndex + Len(txs[i].blobHashes),
                             indexedDataHashes
                                 \o IndexedHashes(txs[i].blobHashes, blobIndex))
    ELSE DataHashesFrom(txs, i + 1, blobIndex + Len(txs[i].blobHashes),
                        indexedDataHashes)

BlobDataFromEVMTransactions(txs) == DataHashesFrom(txs, 1, 0, <<>>)

--------------------------------------------------------------------------
(* BlobDataSource.Next *)

NilBlobs == [isNil |-> TRUE, list |-> <<>>]

NoData == [op |-> "Next", err |-> "nil", data |-> <<>>, hasData |-> FALSE]

NoFetch == [block |-> "none", blobs |-> "none"]

\* the error Next returns when InfoAndTxsByHash fails with err
OpenError(err) == IF err = "NotFound" THEN "ResetError" ELSE "TemporaryError"

BlobsErrorAlwaysReset(err) == "ResetError"

\* the error Next returns when BlobsByRefAndIndexedDataHashes fails with err
BlobsError(err) == IF err = "NotFound" THEN "ResetError" ELSE "TemporaryError"

RemainingBlobsNone(list) == <<>>

\* ds.blobs = ds.blobs[1:]
RemainingBlobs(list) == Tail(list)

AfterFailedFetchClosed(ds) == [ds EXCEPT !.open = FALSE, !.blobDataHashes = <<>>]

\* the source when Next returns the error of a fetch: no field was written
\* since the fetcher was called
AfterFailedFetch(ds) == ds

\* ds.Next(ctx) on the source ds, the fetchers answering blockRes and
\* blobsRes when called: the source after the call, what the call returns,
\* and what the fetchers were asked
RECURSIVE Next_(_, _, _, _)
Next_(ds, log, blockRes, blobsRes) ==
    LET Parse(d, l) ==
            IF Len(d.blobs.list) > 0
            THEN LET rest == [d EXCEPT !.blobs = [isNil |-> FALSE,
                                                  list |-> RemainingBlobs(d.blobs.list)]]
                     Parsed(r) ==
                         IF r.err # "nil"
                         THEN Next_(rest, l, blockRes, blobsRes)
                         ELSE [ds |-> rest, log |-> l,
                               ret |-> [NoData EXCEPT !.data = r.data, !.hasData = TRUE]]
                 IN  Parsed(ToData(Head(d.blobs.list)))
            ELSE [ds |-> d, log |-> l, ret |-> [NoData EXCEPT !.err = "EOF"]]
        Blobs(d, l) ==
            IF Len(d.blobDataHashes) > 0
            THEN IF d.blobs.isNil
                 THEN IF blobsRes.err # "nil"
                      THEN [ds |-> AfterFailedFetch(d),
                            log |-> [l EXCEPT !.blobs = blobsRes.err],
                            ret |-> [NoData EXCEPT !.err = BlobsError(blobsRes.err)]]
                      ELSE Parse([d EXCEPT !.blobs = blobsRes.blobs],
                                 [l EXCEPT !.blobs = "nil"])
                 ELSE Parse(d, l)
            ELSE [ds |-> d, log |-> l, ret |-> [NoData EXCEPT !.err = "EOF"]]
    IN  IF ~ds.open
        THEN IF blockRes.err = "nil"
             THEN Blobs([ds EXCEPT !.open = TRUE,
                                   !.blobDataHashes =
                                       BlobDataFromEVMTransactions(blockRes.txs)],
                        [log EXCEPT !.block = "nil"])
             ELSE [ds |-> AfterFailedFetch(ds),
                   log |-> [log EXCEPT !.block = blockRes.err],
                   ret |-> [NoData EXCEPT !.err = OpenError(blockRes.err)]]
        ELSE Blobs(ds, log)

--------------------------------------------------------------------------
(* L1 blocks and blobs the fetchers may return *)

\* transactions: to the batch inbox or elsewhere or creating a contract,
\* from the batcher or not, with blob hashes or call-data
TxKinds ==
    { [to |-> "inbox", sender |-> "batcher", blobHashes |-> <<"h1">>, calldata |-> 0],
      [to |-> "inbox", sender |-> "batcher", blobHashes |-> <<"h2", "h3">>, calldata |-> 4],
      [to |-> "inbox", sender |-> "other", blobHashes |-> <<"h4">>, calldata |-> 0],
      [to |-> "other", sender |-> "batcher", blobHashes |-> <<"h5">>, calldata |-> 0],
      [to |-> "nil", sender |-> "batcher", blobHashes |-> <<>>, calldata |-> 4] }

RECURSIVE SeqsUpTo(_, _)
SeqsUpTo(S, n) ==
    IF n = 0 THEN { <<>> }
    ELSE SeqsUpTo(S, n - 1)
             \cup { Append(q, x) : q \in { t \in SeqsUpTo(S, n - 1) : Len(t) = n - 1 }, x \in S }

\* blobs: two encodings, one of them of no data, and a blob with the top bit
\* of a field element set
SourceBlobs ==
    { FromData(ZeroBlob, ShortText).b,
      ZeroBlob,
      [FromData(ZeroBlob, InvalidDecodingText).b EXCEPT ![32 + 1] = 128] }

BlockResults ==
    { [err |-> "nil", txs |-> t] : t \in SeqsUpTo(TxKinds, MaxTxs) }
        \cup { [err |-> e, txs |-> <<>>] : e \in { "NotFound", "Other" } }

BlobsResults ==
    { [err |-> "nil", blobs |-> [isNil |-> FALSE, list |-> l]] :
          l \in SeqsUpTo(SourceBlobs, MaxBlobs) }
        \cup { [err |-> "nil", blobs |-> NilBlobs] }
        \cup { [err |-> e, blobs |-> NilBlobs] : e \in { "NotFound", "Other" } }

--------------------------------------------------------------------------
(* The system-config events: topics, ABI words and the readers of solabi *)

\* a common.Hash: the hash of a text, or a 32-byte word of the number n
Keccak256Hash(text) == [pre |-> text, n |-> 0]

\* common.Hash{31: k}
HashOf(k) == [pre |-> "", n |-> k]

SystemConfigUpdateBatcher == HashOf(0)

SystemConfigUpdateGasConfig == HashOf(1)

SystemConfigUpdateGasLimit == HashOf(2)

SystemConfigUpdateUnsafeBlockSigner == HashOf(3)

ConfigUpdateEventABI == "ConfigUpdate(uint256,uint8,bytes)"

ConfigUpdateEventABIHash == Keccak256Hash(ConfigUpdateEventABI)

\* common.Hash{}
ConfigUpdateEventVersion0 == HashOf(0)

Zeros(n) == [i \in 1 .. n |-> 0]

\* [12]byte{}
addressPadding == Zeros(12)

\* the number a big-endian byte string stands for
RECURSIVE BigEndian(_)
BigEndian(bytes) ==
    IF bytes = <<>> THEN 0
    ELSE 256 * BigEndian(SubSeq(bytes, 1, Len(bytes) - 1)) + bytes[Len(bytes)]

\* bytes.NewReader(ev.Data): the data and the number of bytes read
NewReader(d) == [d |-> d, pos |-> 0]

\* the bytes a reader has left
Unread(r) == Len(r.d) - r.pos

\* the next n bytes of a reader
Peek(r, n) == SubSeq(r.d, r.pos + 1, r.pos + n)

Skip(r, n) == [r EXCEPT !.pos = r.pos + n]

\* solabi.ReadUint64: 24 bytes of padding, which must be zero, and the
\* number in 8 bytes, big-endian
ReadUint64(r) ==
    IF Unread(r) < 24
    THEN [n |-> 0, err |-> "EOF", r |-> Skip(r, Unread(r))]
    ELSE IF Peek(r, 24) # Zeros(24)
    THEN [n |-> 0, err |-> "number padding was not empty", r |-> Skip(r, 24)]
    ELSE IF Unread(r) < 32
    THEN [n |-> 0, err |-> "expected number", r |-> Skip(r, Unread(r))]
    ELSE [n |-> BigEndian(Peek(Skip(r, 24), 8)), err |-> "nil", r |-> Skip(r, 32)]

\* solabi.ReadEthBytes32: the next 32 bytes
ReadEthBytes32(r) ==
    IF Unread(r) < 32
    THEN [b |-> Zeros(32), err |-> "EOF", r |-> Skip(r, Unread(r))]
    ELSE [b |-> Peek(r, 32), err |-> "nil", r |-> Skip(r, 32)]

\* solabi.ReadAddressWithPadding: 12 bytes of padding and the 20 bytes of
\* the address
ReadAddressWithPadding(r) ==
    IF Unread(r) < 32
    THEN [a |-> Zeros(20), padding |-> Zeros(12), err |-> "EOF", r |-> Skip(r, Unread(r))]
    ELSE [a |-> Peek(Skip(r, 12), 20), padding |-> Peek(r, 12), err |-> "nil",
          r |-> Skip(r, 32)]

\* solabi.EmptyReader: nothing is left to read
EmptyReader(r) == Unread(r) = 0

\* NewCriticalError(err)
NewCriticalError(msg) == [msg |-> msg, critical |-> TRUE]

\* fmt.Errorf(...), errors.New(...)
Errorf(msg) == [msg |-> msg, critical |-> FALSE]

NilError == [msg |-> "nil", critical |-> FALSE]

--------------------------------------------------------------------------
(* ReadVersionedBatcherHash *)

PaddingTailIgnored(padding) == TRUE

\* bytes.Equal(padding[2:], addressPadding[2:])
PaddingTailEmpty(padding) == SubSeq(padding, 2 + 1, 12) = SubSeq(addressPadding, 2 + 1, 12)

\* v, a, useBlobs and err of ReadVersionedBatcherHash(r), and the reader
\* after the call
ReadVersionedBatcherHash(r) ==
    LET Read(p) ==
            IF p.err # "nil"
            THEN [v |-> 0, a |-> p.a, useBlobs |-> FALSE,
                  err |-> Errorf("could not read address with padding"), r |-> p.r]
            ELSE IF p.padding = addressPadding
            THEN [v |-> 0, a |-> p.a, useBlobs |-> FALSE, err |-> NilError, r |-> p.r]
            ELSE IF p.padding[0 + 1] # 1
            THEN [v |-> 0, a |-> p.a, useBlobs |-> FALSE,
                  err |-> Errorf("unknown batcher address version"), r |-> p.r]
            ELSE IF p.padding[1 + 1] \notin { 0, 1 }
            THEN [v |-> p.padding[0 + 1], a |-> p.a, useBlobs |-> FALSE,
                  err |-> Errorf("unknown value in byte 1 of v1 address"), r |-> p.r]
            ELSE IF ~PaddingTailEmpty(p.padding)
            THEN [v |-> p.padding[0 + 1], a |-> p.a, useBlobs |-> (p.padding[1 + 1] = 1),
                  err |-> Errorf("v1 address padding not empty"), r |-> p.r]
            ELSE [v |-> p.padding[0 + 1], a |-> p.a, useBlobs |-> (p.padding[1 + 1] = 1),
                  err |-> NilError, r |-> p.r]
    IN  Read(ReadAddressWithPadding(r))

--------------------------------------------------------------------------
(* ProcessSystemConfigUpdateLogEvent *)

\* case SystemConfigUpdateBatcher
UpdateBatcher(cfg, reader) ==
    LET Hash(h) ==
            IF h.err # NilError
            THEN [cfg |-> cfg, err |-> NewCriticalError("invalid versioned batcher address")]
            ELSE IF ~EmptyReader(h.r)
            THEN [cfg |-> cfg, err |-> NewCriticalError("too many bytes")]
            ELSE [cfg |-> [cfg EXCEPT !.BatcherHashVersion = h.v,
                                      !.BatcherAddr = h.a,
                                      !.CanUseBlobs = h.useBlobs],
                  err |-> NilError]
        Length(l) ==
            IF l.err # "nil" \/ l.n # 32
            THEN [cfg |-> cfg, err |-> NewCriticalError("invalid length field")]
            ELSE Hash(ReadVersionedBatcherHash(l.r))
        Pointer(p) ==
            IF p.err # "nil" \/ p.n # 32
            THEN [cfg |-> cfg, err |-> NewCriticalError("invalid pointer field")]
            ELSE Length(ReadUint64(p.r))
    IN  Pointer(ReadUint64(reader))

SetGasConfigAndLimit(cfg, overhead, scalar) ==
    [cfg EXCEPT !.Overhead = overhead, !.Scalar = scalar, !.GasLimit = 0]

\* destSysCfg.Overhead = overhead; destSysCfg.Scalar = scalar
SetGasConfig(cfg, overhead, scalar) ==
    [cfg EXCEPT !.Overhead = overhead, !.Scalar = scalar]

\* case SystemConfigUpdateGasConfig
UpdateGasConfig(cfg, reader) ==
    LET Scalar(o, s) ==
            IF s.err # "nil"
            THEN [cfg |-> cfg, err |-> NewCriticalError("could not read scalar")]
            ELSE IF ~EmptyReader(s.r)
            THEN [cfg |-> cfg, err |-> NewCriticalError("too many bytes")]
            ELSE [cfg |-> SetGasConfig(cfg, o.b, s.b), err |-> NilError]
        Overhead(o) ==
            IF o.err # "nil"
            THEN [cfg |-> cfg, err |-> NewCriticalError("could not read overhead")]
            ELSE Scalar(o, ReadEthBytes32(o.r))
        Length(l) ==
            IF l.err # "nil" \/ l.n # 64
            THEN [cfg |-> cfg, err |-> NewCriticalError("invalid length field")]
            ELSE Overhead(ReadEthBytes32(l.r))
        Pointer(p) ==
            IF p.err # "nil" \/ p.n # 32
            THEN [cfg |-> cfg, err |-> NewCriticalError("invalid pointer field")]
            ELSE Length(ReadUint64(p.r))
    IN  Pointer(ReadUint64(reader))

\* case SystemConfigUpdateGasLimit
UpdateGasLimit(cfg, reader) ==
    LET GasLimit(g) ==
            IF g.err # "nil"
            THEN [cfg |-> cfg, err |-> NewCriticalError("could not read gas limit")]
            ELSE IF ~EmptyReader(g.r)
            THEN [cfg |-> cfg, err |-> NewCriticalError("too many bytes")]
            ELSE [cfg |-> [cfg EXCEPT !.GasLimit = g.n], err |-> NilError]
        Length(l) ==
            IF l.err # "nil" \/ l.n # 32
            THEN [cfg |-> cfg, err |-> NewCriticalError("invalid length field")]
            ELSE GasLimit(ReadUint64(l.r))
        Pointer(p) ==
            IF p.err # "nil" \/ p.n # 32
            THEN [cfg |-> cfg, err |-> NewCriticalError("invalid pointer field")]
            ELSE Length(ReadUint64(p.r))
    IN  Pointer(ReadUint64(reader))

\* ProcessSystemConfigUpdateLogEvent(destSysCfg, ev): the config after the
\* call and the error returned
ProcessSystemConfigUpdateLogEvent(destSysCfg, e) ==
    IF Len(e.Topics) # 3
    THEN [cfg |-> destSysCfg, err |-> Errorf("expected 3 event topics")]
    ELSE IF e.Topics[0 + 1] # ConfigUpdateEventABIHash
    THEN [cfg |-> destSysCfg, err |-> Errorf("invalid SystemConfig update event")]
    ELSE IF e.Topics[1 + 1] # ConfigUpdateEventVersion0
    THEN [cfg |-> destSysCfg,
          err |-> Errorf("unrecognized SystemConfig update event version")]
    ELSE
    LET updateType == e.Topics[2 + 1]
        reader == NewReader(e.Data)
    IN  CASE updateType = SystemConfigUpdateBatcher -> UpdateBatcher(destSysCfg, reader)
          [] updateType = SystemConfigUpdateGasConfig -> UpdateGasConfig(destSysCfg, reader)
          [] updateType = SystemConfigUpdateGasLimit -> UpdateGasLimit(destSysCfg, reader)
          [] updateType = SystemConfigUpdateUnsafeBlockSigner ->
                 [cfg |-> destSysCfg, err |-> NilError]
          [] OTHER ->
                 [cfg |-> destSysCfg, err |-> Errorf("unrecognized L1 sysCfg update type")]

--------------------------------------------------------------------------
(* Log entries and system configs *)

\* the 32-byte ABI word of the number n
U64Word(n) == [i \in 1 .. 32 |-> IF i <= 28 THEN 0 ELSE (n \div (256 ^ (32 - i))) % 256]

Addresses == { [i \in 1 .. 20 |-> 170], MkData(20, 1, 1) }

\* paddings of a batcher hash: version 0, version 1 with each value of the
\* blobs byte, and paddings with one byte that makes them invalid
Paddings ==
    { Zeros(12),
      <<1, 0>> \o Zeros(10), <<1, 1>> \o Zeros(10), <<1, 2>> \o Zeros(10),
      <<1, 255>> \o Zeros(10), <<2, 0>> \o Zeros(10), <<255, 1>> \o Zeros(10),
      <<0, 1>> \o Zeros(10), Zeros(11) \o <<9>>,
      <<1, 0, 5>> \o Zeros(9), <<1, 1>> \o Zeros(9) \o <<7>> }

BatcherWords == { p \o a : p \in Paddings, a \in Addresses }

Bytes32s == { U64Word(2100), [i \in 1 .. 32 |-> 255] }

GasLimits == { 0, 30000000, 2147483647 }

\* the words after the pointer and the length of a payload
BatcherPayload(w) == U64Word(32) \o U64Word(32) \o w

GasConfigPayload(overhead, scalar) == U64Word(32) \o U64Word(64) \o overhead \o scalar

GasLimitPayload(n) == U64Word(32) \o U64Word(32) \o U64Word(n)

\* the payloads the contract emits
GoodData ==
    { BatcherPayload(w) : w \in BatcherWords }
        \cup { GasConfigPayload(o, s) : o \in Bytes32s, s \in Bytes32s }
        \cup { GasLimitPayload(n) : n \in GasLimits }

\* payloads with a wrong pointer or length, a number with padding, bytes
\* missing or bytes too many
BadData ==
    LET good == { BatcherPayload(<<1, 1>> \o Zeros(10) \o MkData(20, 1, 1)),
                  GasConfigPayload(U64Word(2100), U64Word(2100)),
                  GasLimitPayload(30000000) }
    IN  { U64Word(64) \o SliceFrom(d, 32) : d \in good }
            \cup { [d EXCEPT ![1] = 1] : d \in good }
            \cup { SubSeq(d, 1, 32) \o U64Word(31) \o SliceFrom(d, 64) : d \in good }
            \cup { [d EXCEPT ![32 + 24] = 1] : d \in good }
            \cup { [d EXCEPT ![64 + 24] = 1] : d \in good }
            \cup { SubSeq(d, 1, Min(n, Len(d) - 1)) :
                       d \in good, n \in { 0, 20, 30, 32, 60, 64, 80, 95, 96, 127 } }
            \cup { d \o <<0>> : d \in good }

\* a bare batcher hash, one byte short, and one byte long
BareWords ==
    BatcherWords
        \cup { SubSeq(w, 1, 31) : w \in BatcherWords }
        \cup { w \o <<0>> : w \in BatcherWords }

TopicLists ==
    { <<ConfigUpdateEventABIHash, ConfigUpdateEventVersion0, HashOf(t)>> : t \in 0 .. 4 }
        \cup { <<>>,
               <<ConfigUpdateEventABIHash, ConfigUpdateEventVersion0>>,
               <<ConfigUpdateEventABIHash, ConfigUpdateEventVersion0,
                 SystemConfigUpdateBatcher, SystemConfigUpdateBatcher>>,
               <<Keccak256Hash("Transfer(address,address,uint256)"),
                 ConfigUpdateEventVersion0, SystemConfigUpdateGasLimit>>,
               <<ConfigUpdateEventABIHash, HashOf(1), SystemConfigUpdateGasLimit>>,
               <<ConfigUpdateEventABIHash, ConfigUpdateEventVersion0,
                 ConfigUpdateEventABIHash>> }

\* types.Log: the topics and the data
Events ==
    { [Topics |-> t, Data |-> d] : t \in TopicLists, d \in GoodData \cup BadData }
        \cup { [Topics |-> <<>>, Data |-> d] : d \in BareWords }

NoEvent == [Topics |-> <<>>, Data |-> <<>>]

\* eth.SystemConfig
SystemConfigs ==
    { [BatcherHashVersion |-> 0, BatcherAddr |-> [i \in 1 .. 20 |-> 17],
       CanUseBlobs |-> FALSE, Overhead |-> U64Word(188), Scalar |-> U64Word(684000),
       GasLimit |-> 25000000],
      [BatcherHashVersion |-> 1, BatcherAddr |-> [i \in 1 .. 20 |-> 34],
       CanUseBlobs |-> TRUE, Overhead |-> Zeros(32), Scalar |-> Zeros(32),
       GasLimit |-> 1] }

NoSysCall ==
    [op |-> "none", err |-> NilError, v |-> 0, a |-> <<>>, useBlobs |-> FALSE,
     unread |-> 0, before |-> CHOOSE c \in SystemConfigs : TRUE]

--------------------------------------------------------------------------
(* The calls *)

\* err := b.FromData(data)
CallFromData ==
    LET r == FromData(b, data)
    IN  /\ b' = r.b
        /\ ret' = [op |-> "FromData", err |-> r.err, data |-> <<>>, info |-> r.offset]
        /\ encoded' = (r.err = "nil")
        /\ dirty' = (b # ZeroBlob)
        /\ pokes' = 0
        /\ UNCHANGED data
        /\ UNCHANGED dsVars
        /\ UNCHANGED cfgVars

\* decoded, err := b.ToData()
CallToData ==
    LET r == ToData(b)
    IN  /\ ret' = [op |-> "ToData", err |-> r.err, data |-> r.data, info |-> r.info]
        /\ UNCHANGED <<b, data, pokes, encoded, dirty>>
        /\ UNCHANGED dsVars
        /\ UNCHANGED cfgVars

\* b[i] = v
Poke(i, v) ==
    /\ pokes < MaxPokes
    /\ b' = [b EXCEPT ![i + 1] = v]
    /\ pokes' = pokes + 1
    /\ encoded' = (encoded /\ b[i + 1] = v)
    /\ ret' = [op |-> "Poke", err |-> "nil", data |-> <<>>, info |-> i]
    /\ UNCHANGED <<data, dirty>>
    /\ UNCHANGED dsVars
    /\ UNCHANGED cfgVars

\* what is known of the calls of ds.Next after one more of them, r, during
\* which the fetchers answered blockRes and blobsRes when asked:
\*   txs, fetched   what the first successful fetch of the block and of the
\*                  blobs returned
\*   blockDone, blobsDone, eof
\*                  a fetch of the block, of the blobs, has succeeded; a call
\*                  has returned io.EOF (the ...Before fields: before the
\*                  last call)
\*   blobsAsked     the blob fetcher has been called
\*   failed         a call has returned a ResetError or a TemporaryError
\*   yielded        the data the calls returned, in order
\*   before         the fields of ds before the last call
Recorded(h, ds, r, blockRes, blobsRes) ==
    [ txs |-> IF r.log.block = "nil" /\ ~h.blockDone THEN blockRes.txs ELSE h.txs,
      fetched |-> IF r.log.blobs = "nil" /\ ~h.blobsDone THEN blobsRes.blobs ELSE h.fetched,
      blockDone |-> h.blockDone \/ r.log.block = "nil",
      blockDoneBefore |-> h.blockDone,
      blobsDone |-> h.blobsDone \/ r.log.blobs = "nil",
      blobsDoneBefore |-> h.blobsDone,
      blobsAsked |-> h.blobsAsked \/ r.log.blobs # "none",
      eof |-> h.eof \/ r.ret.err = "EOF",
      eofBefore |-> h.eof,
      failed |-> h.failed \/ r.ret.err \in { "ResetError", "TemporaryError" },
      yielded |-> IF r.ret.hasData THEN Append(h.yielded, r.ret.data) ELSE h.yielded,
      before |-> ds ]

NoCalls ==
    [ txs |-> <<>>, fetched |-> NilBlobs,
      blockDone |-> FALSE, blockDoneBefore |-> FALSE,
      blobsDone |-> FALSE, blobsDoneBefore |-> FALSE,
      blobsAsked |-> FALSE, eof |-> FALSE, eofBefore |-> FALSE,
      failed |-> FALSE, yielded |-> <<>>,
      before |-> [open |-> FALSE, blobDataHashes |-> <<>>, blobs |-> NilBlobs] ]

\* data, err := ds.Next(ctx)
CallNext(blockRes, blobsRes) ==
    LET ds == [open |-> open, blobDataHashes |-> blobDataHashes, blobs |-> blobs]
        Called(r) ==
            /\ open' = r.ds.open
            /\ blobDataHashes' = r.ds.blobDataHashes
            /\ blobs' = r.ds.blobs
            /\ nextRet' = r.ret
            /\ fetchLog' = r.log
            /\ hist' = Recorded(hist, ds, r, blockRes, blobsRes)
    IN  /\ Called(Next_(ds, NoFetch, blockRes, blobsRes))
        /\ UNCHANGED codecVars
        /\ UNCHANGED cfgVars

\* err := ProcessSystemConfigUpdateLogEvent(&sysCfg, ev)
CallProcess ==
    LET r == ProcessSystemConfigUpdateLogEvent(sysCfg, ev)
    IN  /\ sysCfg' = r.cfg
        /\ sysRet' = [NoSysCall EXCEPT !.op = "Process", !.err = r.err, !.before = sysCfg]
        /\ UNCHANGED ev
        /\ UNCHANGED codecVars
        /\ UNCHANGED dsVars

\* v, a, useBlobs, err := ReadVersionedBatcherHash(bytes.NewReader(ev.Data))
CallReadVersionedBatcherHash ==
    LET r == ReadVersionedBatcherHash(NewReader(ev.Data))
    IN  /\ sysRet' = [op |-> "ReadVersionedBatcherHash", err |-> r.err, v |-> r.v,
                      a |-> r.a, useBlobs |-> r.useBlobs, unread |-> Unread(r.r),
                      before |-> sysCfg]
        /\ UNCHANGED <<ev, sysCfg>>
        /\ UNCHANGED codecVars
        /\ UNCHANGED dsVars

InitCodec ==
    /\ ret = NoCall
    /\ pokes = 0
    /\ encoded = FALSE
    /\ dirty = FALSE

\* NewBlobDataSource
InitSource ==
    /\ open = FALSE
    /\ blobDataHashes = <<>>
    /\ blobs = NilBlobs
    /\ nextRet = [NoData EXCEPT !.op = "none"]
    /\ fetchLog = NoFetch
    /\ hist = NoCalls

\* no log entry at hand
InitNoEvent ==
    /\ ev = NoEvent
    /\ sysCfg = CHOOSE c \in SystemConfigs : TRUE
    /\ sysRet = NoSysCall

\* one payload of every length, encoded into a fresh or a used buffer
Init ==
    /\ InitCodec
    /\ InitSource
    /\ InitNoEvent
    /\ data \in DataInputs
    /\ b \in PriorBlobs

Next ==
    \/ CallFromData
    \/ CallToData

Spec == Init /\ [][Next]_vars

\* the payloads of the tests, encoded into a fresh buffer that is then
\* written to
InitDecode ==
    /\ InitCodec
    /\ InitSource
    /\ InitNoEvent
    /\ data \in TestInputs
    /\ b = ZeroBlob

NextDecode ==
    \/ CallFromData
    \/ CallToData
    \/ \E i \in PokeOffsets, v \in PokeBytes : Poke(i, v)

SpecDecode == InitDecode /\ [][NextDecode]_vars

\* a blob data source pulled from, the fetchers answering as they please
InitPull ==
    /\ InitCodec
    /\ InitSource
    /\ InitNoEvent
    /\ data = <<>>
    /\ b = ZeroBlob

\* the answers that matter to a call: a fetcher is not asked for a block
\* that is open, nor for blobs that are cached or when the block, opened
\* before or with the answer blockRes, has no blob hashes for the source
BlockAnswers == IF open THEN { [err |-> "nil", txs |-> <<>>] } ELSE BlockResults

BlobsAnswers(blockRes) ==
    LET hashes == IF open THEN blobDataHashes
                  ELSE IF blockRes.err = "nil"
                  THEN BlobDataFromEVMTransactions(blockRes.txs)
                  ELSE <<>>
    IN  IF blobs.isNil /\ Len(hashes) > 0
        THEN BlobsResults
        ELSE { [err |-> "nil", blobs |-> NilBlobs] }

NextPull ==
    \E blockRes \in BlockAnswers :
        \E blobsRes \in BlobsAnswers(blockRes) : CallNext(blockRes, blobsRes)

SpecSource == InitPull /\ [][NextPull]_vars

\* a log entry and a system config it is applied to
InitEvent ==
    /\ InitCodec
    /\ InitSource
    /\ data = <<>>
    /\ b = ZeroBlob
    /\ ev \in Events
    /\ sysCfg \in SystemConfigs
    /\ sysRet = [NoSysCall EXCEPT !.before = sysCfg]

NextEvent ==
    \/ CallProcess
    \/ CallReadVersionedBatcherHash

SpecSysCfg == InitEvent /\ [][NextEvent]_vars

--------------------------------------------------------------------------
(* The encoder and the decoder together (Spec) *)

\* C1: a payload of at most MaxBlobDataSize bytes is encoded without error,
\* whatever the buffer held, and decoding the blob returns the payload.
C1_RoundTrip ==
    /\ (ret.op = "FromData" /\ Len(data) <= MaxBlobDataSize) => ret.err = "nil"
    /\ (ret.op = "ToData" /\ encoded) => (ret.err = "nil" /\ ret.data = data)

\* a payload that ends in the spill bytes of the first group, decoded from a
\* buffer that was in use before
C1_Witness ==
    /\ ret.op = "ToData"
    /\ encoded
    /\ dirty
    /\ Len(data) = 27 + 31 * 3 + 1
    /\ data[Len(data)] = 255
    /\ ret.data = data

\* C2: after a successful FromData the leading byte of every field element
\* has its top two bits clear.
C2_LeadingBitsClear ==
    encoded => \A k \in 0 .. 4 * NGroups - 1 : BitAnd(b[32 * k + 1], 192) = 0

\* the largest payload, of 0xFF bytes, encoded over a used buffer
C2_Witness ==
    /\ ret.op = "FromData"
    /\ encoded
    /\ dirty
    /\ Len(data) = MaxBlobDataSize
    /\ data[Len(data)] = 255
    /\ b[32 * (4 * NGroups - 1) + 1] = 63

\* the payload byte at (Go) index k, zero past the end of the payload
PayloadAt(d, k) == IF k < Len(d) THEN d[k + 1] ELSE 0

\* C3: the byte the reference layout puts at blob offset p for payload d:
\* the header in blob[1..5], the payload in order in the tails (27 bytes in
\* the first element, 31 in every other one), and after the tails of a
\* group the next three payload bytes s0, s1, s2 spread over the four
\* leading bytes of the group; zero everywhere else.
LayoutByte(d, p) ==
    LET g == p \div 128
        e == (p % 128) \div 32
        o == p % 32
        firstSpill == IF g = 0 THEN 27 + 31 * 3 ELSE 127 * g - 4 + 4 * 31
        s0 == PayloadAt(d, firstSpill)
        s1 == PayloadAt(d, firstSpill + 1)
        s2 == PayloadAt(d, firstSpill + 2)
    IN  IF o = 0
        THEN CASE e = 0 -> s0 % 64
               [] e = 1 -> s1 % 64
               [] e = 2 -> s2 % 64
               [] e = 3 -> (s0 \div 64) * 16 + (s1 \div 64) * 4 + (s2 \div 64)
        ELSE IF g = 0 /\ e = 0
        THEN CASE o = 1 -> 0
               [] o = 2 -> (Len(d) \div 65536) % 256
               [] o = 3 -> (Len(d) \div 256) % 256
               [] o = 4 -> Len(d) % 256
               [] OTHER -> PayloadAt(d, o - 5)
        ELSE IF g = 0
        THEN PayloadAt(d, 27 + 31 * (e - 1) + (o - 1))
        ELSE PayloadAt(d, 127 * g - 4 + 31 * e + (o - 1))

C3_Layout ==
    encoded => \A p \in 0 .. BlobSize - 1 : b[p + 1] = LayoutByte(data, p)

\* a payload that ends with two of the three spill bytes of the second group
C3_Witness ==
    /\ ret.op = "FromData"
    /\ encoded
    /\ Len(data) = 127 * 2 - 4 - 1
    /\ data[Len(data)] >= 192
    /\ data[Len(data)] # 255
    /\ b[128 + 96 + 1] # 0

\* C4: FromData refuses every payload longer than MaxBlobDataSize with the
\* DataTooLarge error.
C4_Refusal ==
    (ret.op = "FromData" /\ Len(data) > MaxBlobDataSize) => ret.err = "DataTooLarge"

\* a payload as long as a blob
C4_Witness ==
    /\ ret.op = "FromData"
    /\ Len(data) = BlobSize
    /\ ret.err = "DataTooLarge"

\* C5: for a payload of at most MaxBlobDataSize bytes FromData consumes the
\* whole payload and returns no error: neither the overflow nor the 24-bit
\* length failure happens.
C5_NoOverflow ==
    (ret.op = "FromData" /\ Len(data) <= MaxBlobDataSize)
        => (ret.err = "nil" /\ ret.info = Len(data))

\* the largest payload
C5_Witness ==
    /\ ret.op = "FromData"
    /\ Len(data) = MaxBlobDataSize
    /\ ret.err = "nil"
    /\ ret.info = MaxBlobDataSize

\* C20: a call of FromData that returns an error leaves every byte of the
\* blob as it was.
C20_Untouched ==
    [][(ret'.op = "FromData" /\ ret'.err # "nil") => b' = b]_vars

\* a payload one byte too long, refused over a buffer of 0xFF bytes
C20_Witness ==
    /\ ret.op = "FromData"
    /\ ret.err = "DataTooLarge"
    /\ Len(data) = MaxBlobDataSize + 1
    /\ b = [i \in 1 .. BlobSize |-> 255]

--------------------------------------------------------------------------
(* The decoder on blobs that were written to (SpecDecode) *)

\* the length prefix of a blob
LengthPrefix(blob) == blob[2 + 1] * 65536 + blob[3 + 1] * 256 + blob[4 + 1]

\* C6: a blob with an acceptable version and length prefix in which some
\* field element, the first one included, has the top bit of its leading
\* byte set is refused with FieldElementHighBit, and no data is returned.
C6_HighBitRefused ==
    ( /\ ret.op = "ToData"
      /\ b[1 + 1] = EncodingVersion
      /\ LengthPrefix(b) <= MaxBlobDataSize
      /\ \E k \in 0 .. 4 * NGroups - 1 : b[32 * k + 1] >= 128 )
        => (ret.err = "FieldElementHighBit" /\ ret.data = <<>>)

\* C7: ToData never returns more than MaxBlobDataSize bytes.
C7_Envelope ==
    (ret.op = "ToData" /\ ret.err = "nil") => Len(ret.data) <= MaxBlobDataSize

\* the encoding of the payload of TestInvalidBlobDecoding with blob[4] = 0xFF
CorruptedLengthBlob == [FromData(ZeroBlob, InvalidDecodingText).b EXCEPT ![4 + 1] = 255]

C9_BadVersion ==
    (ret.op = "ToData" /\ b[1 + 1] # EncodingVersion)
        => (ret.err = "BadVersion" /\ ret.info = b[1 + 1])

\* C17: the index a FieldElementHighBit error reports is that of a field
\* element, in any group, whose leading byte has its top bit set.
C17_ElementIndex ==
    (ret.op = "ToData" /\ ret.err = "FieldElementHighBit")
        => /\ ret.info \in 0 .. 4 * NGroups - 1
           /\ b[32 * ret.info + 1] >= 128

--------------------------------------------------------------------------
(* The blob data source (SpecSource) *)

\* C10: a Next during which a fetcher failed with NotFound returns a
\* ResetError, one during which a fetcher failed otherwise returns a
\* TemporaryError, and neither returns data.
C10_FetchErrors ==
    /\ (fetchLog.block = "NotFound" \/ fetchLog.blobs = "NotFound")
           => (nextRet.err = "ResetError" /\ ~nextRet.hasData /\ nextRet.data = <<>>)
    /\ (fetchLog.block = "Other" \/ fetchLog.blobs = "Other")
           => (nextRet.err = "TemporaryError" /\ ~nextRet.hasData /\ nextRet.data = <<>>)

\* the block is fetched and has blob hashes, and the blobs are not found
C10_Witness ==
    /\ nextRet.op = "Next"
    /\ fetchLog.block = "nil"
    /\ fetchLog.blobs = "NotFound"
    /\ Len(blobDataHashes) > 0
    /\ nextRet.err = "ResetError"

\* the data of the blobs of a list that decode, in the order of the list
RECURSIVE Decodings(_)
Decodings(list) ==
    IF list = <<>> THEN <<>>
    ELSE LET Decoded(r) == IF r.err = "nil" THEN <<r.data>> ELSE <<>>
         IN  Decoded(ToData(Head(list))) \o Decodings(Tail(list))

\* the blobs of the fetched list that the source holds no more
Consumed ==
    SubSeq(hist.fetched.list, 1, Len(hist.fetched.list) - Len(blobs.list))

\* C11: once the blobs are fetched and up to the first io.EOF, the data the
\* calls of Next returned are the decodings of the blobs consumed so far
\* that decode, in the order of the fetched list; a call returns data, of the
\* blob it consumed last, or io.EOF, never an error for a blob that does not
\* decode; and io.EOF is returned when every fetched blob is consumed.
C11_YieldOrder ==
    LET LastIs(r) == r.err = "nil" /\ nextRet.data = r.data
    IN  (hist.blobsDone /\ ~hist.eofBefore)
            => /\ hist.yielded = Decodings(Consumed)
               /\ nextRet.err \in { "nil", "EOF" }
               /\ nextRet.err = "nil"
                      => /\ nextRet.hasData
                         /\ Len(Consumed) > 0
                         /\ LastIs(ToData(Consumed[Len(Consumed)]))
               /\ nextRet.err = "EOF"
                      => /\ ~nextRet.hasData
                         /\ Consumed = hist.fetched.list

\* two blobs fetched, the first of which does not decode: the second one was
\* returned and then io.EOF
C11_Witness ==
    /\ nextRet.err = "EOF"
    /\ ~hist.eofBefore
    /\ Len(hist.fetched.list) = 2
    /\ ToData(hist.fetched.list[1]).err # "nil"
    /\ Len(hist.yielded) = 1
    /\ hist.yielded[1] = ShortText

\* the number of blob hashes of the transactions before the i-th
RECURSIVE HashesBefore(_, _)
HashesBefore(txs, i) ==
    IF i <= 1 THEN 0
    ELSE HashesBefore(txs, i - 1) + Len(txs[i - 1].blobHashes)

\* the entries for the transactions from the i-th on: those of the
\* transactions to the batch inbox from the batcher
RECURSIVE ExpectedHashes(_, _)
ExpectedHashes(txs, i) ==
    IF i > Len(txs) THEN <<>>
    ELSE (IF txs[i].to = batchInboxAddress /\ txs[i].sender = batcherAddr
          THEN [k \in 1 .. Len(txs[i].blobHashes) |->
                   [Index |-> HashesBefore(txs, i) + (k - 1),
                    DataHash |-> txs[i].blobHashes[k]]]
          ELSE <<>>)
             \o ExpectedHashes(txs, i + 1)

\* C12: the hashes collected from the transactions of the block are those of
\* the transactions to the batch inbox from the batcher, in the order of the
\* transactions and of the hashes in them; the Index of an entry is the
\* number of hashes of all earlier transactions plus its position in its
\* own, and the indices increase.
C12_BlobIndex ==
    hist.blockDone
        => /\ blobDataHashes = ExpectedHashes(hist.txs, 1)
           /\ \A k \in 1 .. Len(blobDataHashes) - 1 :
                  blobDataHashes[k].Index < blobDataHashes[k + 1].Index

\* a transaction to the inbox from another sender, with a blob, before one
\* of the batcher with two blobs
C12_Witness ==
    /\ hist.blockDone
    /\ Len(hist.txs) = 2
    /\ hist.txs[1].to = batchInboxAddress
    /\ hist.txs[1].sender # batcherAddr
    /\ Len(blobDataHashes) = 2
    /\ blobDataHashes[1].Index = 1
    /\ blobDataHashes[2] = [Index |-> 2, DataHash |-> "h3"]

\* C13: the block fetcher is not called after a fetch of the block has
\* succeeded, the blob fetcher is not called after a fetch of the blobs has
\* succeeded, and the blob fetcher is never called for a block without
\* blob hashes of the batcher.
C13_FetchOnce ==
    /\ hist.blockDoneBefore => fetchLog.block = "none"
    /\ hist.blobsDoneBefore => fetchLog.blobs = "none"
    /\ (open /\ blobDataHashes = <<>>) => ~hist.blobsAsked

\* the data the calls of Next on the source ds return up to the first
\* io.EOF when the fetchers answer blockRes and blobsRes
RECURSIVE Pulled(_, _, _, _)
Pulled(ds, blockRes, blobsRes, yielded) ==
    LET Called(r) ==
            IF r.ret.hasData
            THEN Pulled(r.ds, blockRes, blobsRes, Append(yielded, r.ret.data))
            ELSE yielded
    IN  Called(Next_(ds, NoFetch, blockRes, blobsRes))

\* the data of a run in which no fetch fails, the fetchers answering what
\* they answered when they succeeded
PulledWithoutFailure ==
    Pulled(NoCalls.before, [err |-> "nil", txs |-> hist.txs],
           [err |-> "nil", blobs |-> hist.fetched], <<>>)

IsPrefix(s, t) == Len(s) <= Len(t) /\ s = SubSeq(t, 1, Len(s))

\* C14: a call of Next that returns a ResetError or a TemporaryError leaves
\* the cached blobs as they were and keeps an open source open with its
\* hashes; and up to the first io.EOF the data returned so far are the first
\* of the data of the run without failing fetches, all of them at io.EOF.
C14_RetrySafety ==
    LET FirstOf(all) ==
            /\ IsPrefix(hist.yielded, all)
            /\ nextRet.err = "EOF" => hist.yielded = all
    IN  /\ nextRet.err \in { "ResetError", "TemporaryError" }
               => /\ blobs = hist.before.blobs
                  /\ hist.before.open
                         => (open /\ blobDataHashes = hist.before.blobDataHashes)
        /\ ~hist.eofBefore => FirstOf(PulledWithoutFailure)

\* fetches failed, and the source has returned two payloads and then io.EOF
C14_Witness ==
    /\ hist.failed
    /\ nextRet.err = "EOF"
    /\ ~hist.eofBefore
    /\ Len(hist.yielded) = 2
    /\ hist.yielded = PulledWithoutFailure

\* C19: after a call of Next has returned io.EOF every call returns io.EOF
\* and no data, and calls no fetcher.
C19_StickyEOF ==
    hist.eofBefore
        => (nextRet.err = "EOF" /\ ~nextRet.hasData /\ fetchLog = NoFetch)

--------------------------------------------------------------------------
(* The system-config events (SpecSysCfg) *)

\* the update type of a log entry with three topics
UpdateTypeOf(e) == IF Len(e.Topics) = 3 THEN e.Topics[3] ELSE HashOf(-1)

\* C15: a successful call changes, for update type 0, nothing but the
\* batcher hash version, the batcher address and the blobs flag; for type
\* 1, nothing but overhead and scalar; for type 2, nothing but the gas
\* limit; for type 3, nothing; a call that returns an error changes nothing.
C15_Frame ==
    sysRet.op = "Process"
        => IF sysRet.err # NilError
           THEN sysCfg = sysRet.before
           ELSE CASE UpdateTypeOf(ev) = HashOf(0) ->
                         [sysCfg EXCEPT
                             !.BatcherHashVersion = sysRet.before.BatcherHashVersion,
                             !.BatcherAddr = sysRet.before.BatcherAddr,
                             !.CanUseBlobs = sysRet.before.CanUseBlobs] = sysRet.before
                  [] UpdateTypeOf(ev) = HashOf(1) ->
                         [sysCfg EXCEPT
                             !.Overhead = sysRet.before.Overhead,
                             !.Scalar = sysRet.before.Scalar] = sysRet.before
                  [] UpdateTypeOf(ev) = HashOf(2) ->
                         [sysCfg EXCEPT !.GasLimit = sysRet.before.GasLimit]
                             = sysRet.before
                  [] UpdateTypeOf(ev) = HashOf(3) -> sysCfg = sysRet.before
                  [] OTHER -> FALSE

\* a gas-config update that set both words
C15_Witness ==
    /\ sysRet.op = "Process"
    /\ sysRet.err = NilError
    /\ UpdateTypeOf(ev) = HashOf(1)
    /\ sysCfg.Overhead # sysRet.before.Overhead
    /\ sysCfg.Scalar # sysRet.before.Scalar
    /\ sysCfg.GasLimit = 25000000

C18_Critical ==
    (sysRet.op = "Process" /\ sysRet.err # NilError) => sysRet.err.critical

==========================================================================
